---- MODULE Spec2Model ----
(***************************************************************************)
(* DataSetTSV (data/dataset.py): a pandas table kept in self._data and     *)
(* written to a tab-separated file at self.path by save().                 *)
(*                                                                         *)
(* Column names are sequences of the "_"-separated parts of the Python     *)
(* name: "Scaffold_Murcko_RDMol" is <<"Scaffold", "Murcko", "RDMol">>, so  *)
(* that name.startswith("Scaffold_") is a test on the first part.          *)
(*                                                                         *)
(* A cell of the in-memory table is a record [t, v, a]:                    *)
(*   t = "str"  a Python string with text v (a is 0, or the address the    *)
(*              text quotes when v is the repr of a molecule object)       *)
(*   t = "num"  a number whose decimal text is v                           *)
(*   t = "mol"  an rdkit Mol object parsed from the SMILES v, living at    *)
(*              address a (objects compare and hash by identity)           *)
(*   t = "nan"  a missing value (NaN / None)                               *)
(* A cell of the file is the text <<v, a>>.                                *)
(***************************************************************************)
EXTENDS Integers, Sequences, FiniteSets, TLC

VARIABLES _data, file, live, op, calls

vars == <<_data, file, live, op, calls>>

-----------------------------------------------------------------------------
(* Bounds of the explored inputs.                                          *)

\* longest sequence of molecules of an initial file (besides ExampleRows)
MaxRows == 2
\* largest mols_per_group passed to createScaffoldGroups
MaxGroup == 3
\* longest list of functions passed to addDescriptors / addScaffolds
MaxList == 2
\* longest list of values passed to addData
MaxData == 2
\* number of calls made after the first construction
MaxCalls == 3

-----------------------------------------------------------------------------
(* Cells.                                                                  *)

NaN == [t |-> "nan", v |-> "", a |-> 0]
Str(s) == [t |-> "str", v |-> s, a |-> 0]
Num(s) == [t |-> "num", v |-> s, a |-> 0]
Mol(s, i) == [t |-> "mol", v |-> s, a |-> i]

\* str(mol) of an rdkit molecule: "<rdkit.Chem.rdchem.Mol object at 0x...>"
MolRepr == "<rdkit.Chem.rdchem.Mol object at 0x>"

Range(s) == {s[i] : i \in DOMAIN s}

-----------------------------------------------------------------------------
(* The molecules and the annotation functions the calls are tried with.    *)
(* Descriptor and Scaffold objects are opaque callables of the caller: a   *)
(* function is given by its name (str(f)) and by what it returns for each  *)
(* molecule, "raise" when it raises.                                       *)

Smiles == {"c1ccccc1", "c1ccncc1", "CCO"}

\* the rows of the spec's grouping example: scaffolds [A, A, A, B, B, C]
ExampleRows ==
    <<"c1ccccc1", "c1ccccc1", "c1ccccc1", "c1ccncc1", "c1ccncc1", "CCO">>

DescriptorNames == {"MW", "Aromatic"}

Descriptor(d, smiles) ==
    CASE d = "MW" ->
            (CASE smiles = "c1ccccc1" -> "78"
               [] smiles = "c1ccncc1" -> "79"
               [] OTHER -> "46")
      [] OTHER ->
            (CASE smiles = "CCO" -> "raise"
               [] OTHER -> "6")

ScaffoldFns == {"Murcko", "Ring"}

Scaffold(s, smiles) ==
    CASE s = "Murcko" ->
            (CASE smiles = "c1ccccc1" -> "c1ccccc1"
               [] smiles = "c1ccncc1" -> "c1ccncc1"
               [] OTHER -> "")
      [] OTHER ->
            (CASE smiles = "CCO" -> "raise"
               [] OTHER -> "C1CCCCC1")

\* strings Chem.MolFromSmiles parses; it returns None for any other string
ValidSmiles == Smiles \cup {"", "C1CCCCC1"}

\* texts pandas.read_csv reads as numbers, and texts it reads as missing
NumTexts == {"78", "79", "46", "6"}
NaTexts == {"", "nan"}

-----------------------------------------------------------------------------
(* pandas.DataFrame: n rows (the index) and the columns in order.          *)

None == [none |-> TRUE, n |-> 0, cols |-> <<>>]
NoFile == [exists |-> FALSE, n |-> 0, cols |-> <<>>]

Columns(df) == [i \in DOMAIN df.cols |-> df.cols[i].name]

HasCol(df, name) == \E i \in DOMAIN df.cols : df.cols[i].name = name

\* df[name]
GetCol(df, name) ==
    LET i == CHOOSE j \in DOMAIN df.cols : df.cols[j].name = name
    IN  df.cols[i].vals

\* df[name] = vals: an existing column keeps its place, a new one is appended
SetCol(df, name, vals) ==
    IF HasCol(df, name)
    THEN [df EXCEPT !.cols =
            [i \in DOMAIN df.cols |->
                IF df.cols[i].name = name
                THEN [name |-> name, vals |-> vals]
                ELSE df.cols[i]]]
    ELSE [df EXCEPT !.cols = Append(df.cols, [name |-> name, vals |-> vals])]

RECURSIVE Without(_, _)
Without(cols, name) ==
    IF cols = <<>> THEN <<>>
    ELSE IF Head(cols).name = name THEN Without(Tail(cols), name)
    ELSE <<Head(cols)>> \o Without(Tail(cols), name)

\* df.drop(name, axis=1, inplace=True), for a name that is a column
DropCol(df, name) == [df EXCEPT !.cols = Without(df.cols, name)]

-----------------------------------------------------------------------------
(* DataFrame.to_csv(path, sep='\t', index=False, header=True) and          *)
(* pandas.read_csv(path, sep='\t').                                        *)

\* the text to_csv writes for one cell
Text(c) ==
    CASE c.t = "nan" -> <<"", 0>>
      [] c.t = "mol" -> <<MolRepr, c.a>>
      [] OTHER -> <<c.v, c.a>>

to_csv(df) ==
    [exists |-> TRUE,
     n |-> df.n,
     cols |-> [i \in DOMAIN df.cols |->
                 [name |-> df.cols[i].name,
                  vals |-> [r \in DOMAIN df.cols[i].vals |->
                              Text(df.cols[i].vals[r])]]]]

\* a column read_csv gives a numeric dtype: every text is a number or missing
IsNumericText(texts) ==
    \A r \in DOMAIN texts : texts[r][1] \in NumTexts \cup NaTexts

\* the cells read_csv makes of the texts of one column
Parse(texts) ==
    [r \in DOMAIN texts |->
        IF texts[r][1] \in NaTexts THEN NaN
        ELSE IF IsNumericText(texts) THEN Num(texts[r][1])
        ELSE [t |-> "str", v |-> texts[r][1], a |-> texts[r][2]]]

read_csv(f) ==
    [none |-> FALSE,
     n |-> f.n,
     cols |-> [i \in DOMAIN f.cols |->
                 [name |-> f.cols[i].name, vals |-> Parse(f.cols[i].vals)]]]

-----------------------------------------------------------------------------
(* rdkit.Chem.PandasTools.AddMoleculeColumnToFrame(frame, smilesCol,       *)
(* molCol): frame[molCol] = frame[smilesCol].map(Chem.MolFromSmiles).      *)

smilesCol == <<"SMILES">>
molCol == <<"RDMol">>

\* Chem.MolFromSmiles on a string: a new molecule object, None if unparsable
MolFromSmiles(c, i) ==
    IF c.v \in ValidSmiles /\ c.a = 0 THEN Mol(c.v, i) ELSE NaN

AddMoleculeColumnToFrame(frame, sCol, mCol) ==
    IF frame.none
    THEN [data |-> frame, result |-> "TypeError"]
    ELSE IF ~HasCol(frame, sCol)
    THEN [data |-> frame, result |-> "KeyError"]
    ELSE IF \E r \in DOMAIN GetCol(frame, sCol) : GetCol(frame, sCol)[r].t # "str"
    THEN [data |-> frame, result |-> "ArgumentError"]
    ELSE [data |-> SetCol(frame, mCol,
                     [r \in DOMAIN GetCol(frame, sCol) |->
                         MolFromSmiles(GetCol(frame, sCol)[r], r)]),
          result |-> "ok"]

-----------------------------------------------------------------------------
(* class DataSetTSV.  Each method is an operator from the object's table   *)
(* and the file to the outcome of the call: the table and the file it      *)
(* leaves, "ok" or the exception it raises, and for a list of functions    *)
(* the position k of the function at which it raised (0 when none did).    *)

Outcome(df, f, result, k) ==
    [data |-> df, file |-> f, result |-> result, k |-> k]

\* save(): the whole table written over the file at self.path
save(df) == to_csv(df)

\* DataSetTSV(path): self._data is None when the file does not exist, and
\* AddMoleculeColumnToFrame is called on it either way
__init__(f) ==
    LET loaded == IF f.exists THEN read_csv(f) ELSE None
        r == AddMoleculeColumnToFrame(loaded, smilesCol, molCol)
    IN  IF r.result = "ok"
        THEN Outcome(r.data, f, "ok", 0)
        ELSE Outcome(None, f, r.result, 0)

\* self._data.apply(lambda row: fn(row[self.molCol]), axis=1), fn being the
\* descriptor (kind "Descriptor", numeric cells) or the scaffold (kind
\* "Scaffold", string cells) of that name.
\* On a table without rows apply calls the lambda once on an empty row,
\* swallows its KeyError and returns a copy of the table; setting a column to
\* that copy raises ValueError unless the copy has exactly one column, whose
\* (empty) values then become the new column.
Apply(df, kind, fn) ==
    IF df.n = 0
    THEN IF Len(df.cols) = 1
         THEN [result |-> "ok", vals |-> <<>>]
         ELSE [result |-> "ValueError", vals |-> <<>>]
    ELSE IF ~HasCol(df, molCol)
    THEN [result |-> "KeyError", vals |-> <<>>]
    ELSE LET mols == GetCol(df, molCol)
             out == [r \in DOMAIN mols |->
                       IF mols[r].t # "mol" THEN "raise"
                       ELSE IF kind = "Descriptor"
                       THEN Descriptor(fn, mols[r].v)
                       ELSE Scaffold(fn, mols[r].v)]
         IN  IF \E r \in DOMAIN out : out[r] = "raise"
             THEN [result |-> "AnnotationFailure", vals |-> <<>>]
             ELSE [result |-> "ok", vals |-> [r \in DOMAIN out |->
                              IF kind = "Descriptor" THEN Num(out[r])
                              ELSE Str(out[r])]]

DescriptorCol(d) == <<"Descriptor", d>>
ScaffoldCol(s) == <<"Scaffold", s>>
ScaffoldMolCol(s) == ScaffoldCol(s) \o molCol

RECURSIVE addDescriptorsFrom(_, _, _, _)

\* addDescriptors with the save moved out of the loop, to after it
addDescriptorsFrom_SaveOnce(df, f, descriptors, k) ==
    IF k > Len(descriptors) THEN Outcome(df, save(df), "ok", 0)
    ELSE LET d == descriptors[k]
             r == Apply(df, "Descriptor", d)
         IN  IF r.result # "ok" THEN Outcome(df, f, r.result, k)
             ELSE addDescriptorsFrom(SetCol(df, DescriptorCol(d), r.vals), f,
                                     descriptors, k + 1)

addDescriptorsFrom(df, f, descriptors, k) ==
    IF k > Len(descriptors) THEN Outcome(df, f, "ok", 0)
    ELSE LET d == descriptors[k]
             r == Apply(df, "Descriptor", d)
         IN  IF r.result # "ok" THEN Outcome(df, f, r.result, k)
             ELSE LET df2 == SetCol(df, DescriptorCol(d), r.vals)
                  IN  addDescriptorsFrom(df2, save(df2), descriptors, k + 1)

addDescriptors(df, f, descriptors) == addDescriptorsFrom(df, f, descriptors, 1)

RECURSIVE addScaffoldsFrom(_, _, _, _)

\* addScaffolds that fills the column of a scaffold with missing values
\* before it computes it
addScaffoldsFrom_Prefilled(df, f, scaffolds, k) ==
    IF k > Len(scaffolds) THEN Outcome(df, f, "ok", 0)
    ELSE LET s == scaffolds[k]
             r == Apply(df, "Scaffold", s)
             df1 == SetCol(df, ScaffoldCol(s), [i \in 1..df.n |-> NaN])
         IN  IF r.result # "ok" THEN Outcome(df1, f, r.result, k)
             ELSE LET df2 == SetCol(df1, ScaffoldCol(s), r.vals)
                      m == AddMoleculeColumnToFrame(df2, ScaffoldCol(s),
                                                    ScaffoldMolCol(s))
                  IN  IF m.result # "ok" THEN Outcome(df2, f, m.result, k)
                      ELSE addScaffoldsFrom(m.data, save(m.data), scaffolds, k + 1)

addScaffoldsFrom(df, f, scaffolds, k) ==
    IF k > Len(scaffolds) THEN Outcome(df, f, "ok", 0)
    ELSE LET s == scaffolds[k]
             r == Apply(df, "Scaffold", s)
         IN  IF r.result # "ok" THEN Outcome(df, f, r.result, k)
             ELSE LET df2 == SetCol(df, ScaffoldCol(s), r.vals)
                      m == AddMoleculeColumnToFrame(df2, ScaffoldCol(s),
                                                    ScaffoldMolCol(s))
                  IN  IF m.result # "ok" THEN Outcome(df2, f, m.result, k)
                      ELSE addScaffoldsFrom(m.data, save(m.data), scaffolds, k + 1)

addScaffolds(df, f, scaffolds) == addScaffoldsFrom(df, f, scaffolds, 1)

\* name.startswith(part + "_")
startswith(name, part) == Len(name) >= 2 /\ name[1] = part

getDescriptorsNames(df) ==
    SelectSeq(Columns(df), LAMBDA c : startswith(c, "Descriptor"))

\* getScaffoldNames testing the prefix "Scaffold" without its underscore
getScaffoldNames_NoUnderscore(df) ==
    SelectSeq(Columns(df),
              LAMBDA c : Len(c) >= 2 /\ c[1] \in {"Scaffold", "ScaffoldGroup"})

getScaffoldNames(df) ==
    SelectSeq(Columns(df), LAMBDA c : startswith(c, "Scaffold"))

\* self._data[names]: the projection on the named columns
Project(df, names) ==
    [df EXCEPT !.cols =
        [i \in DOMAIN names |-> [name |-> names[i], vals |-> GetCol(df, names[i])]]]

getScaffolds(df, includeMols) ==
    IF includeMols
    THEN Project(df, SelectSeq(Columns(df), LAMBDA c : startswith(c, "Scaffold")))
    ELSE Project(df, getScaffoldNames(df))

hasScaffoldGroups(df) ==
    \E i \in DOMAIN df.cols : startswith(df.cols[i].name, "ScaffoldGroup")

\* the values data gives a column of a table of n rows
DataVals(data, n) ==
    [r \in 1..(IF data.kind = "list" THEN data.len ELSE n) |-> Str("active")]

\* addData without its save()
addData_NoSave(df, f, name, data) ==
    IF data.kind = "list" /\ data.len > 0 /\ df.n = 0
    THEN LET grown == [none |-> FALSE, n |-> data.len,
                       cols |-> [i \in DOMAIN df.cols |->
                                   [name |-> df.cols[i].name,
                                    vals |-> [r \in 1..data.len |-> NaN]]]]
         IN  Outcome(SetCol(grown, name, DataVals(data, data.len)), f, "ok", 0)
    ELSE IF data.kind = "list" /\ data.len # df.n
    THEN Outcome(df, f, "ValueError", 0)
    ELSE Outcome(SetCol(df, name, DataVals(data, df.n)), f, "ok", 0)

\* self._data[name] = data; save().  A list must have one value per row,
\* except that a table without rows takes the length of a non-empty list:
\* pandas reindexes it to that many rows, its other columns all missing.
addData(df, f, name, data) ==
    IF data.kind = "list" /\ data.len > 0 /\ df.n = 0
    THEN LET grown == [none |-> FALSE, n |-> data.len,
                       cols |-> [i \in DOMAIN df.cols |->
                                   [name |-> df.cols[i].name,
                                    vals |-> [r \in 1..data.len |-> NaN]]]]
             df2 == SetCol(grown, name, DataVals(data, data.len))
         IN  Outcome(df2, save(df2), "ok", 0)
    ELSE IF data.kind = "list" /\ data.len # df.n
    THEN Outcome(df, f, "ValueError", 0)
    ELSE LET df2 == SetCol(df, name, DataVals(data, df.n))
         IN  Outcome(df2, save(df2), "ok", 0)

\* removeData dropping with errors='ignore'
removeData_Ignore(df, f, name) ==
    Outcome(DropCol(df, name), save(DropCol(df, name)), "ok", 0)

\* self._data.drop(name, axis=1, inplace=True); save()
removeData(df, f, name) ==
    IF ~HasCol(df, name) THEN Outcome(df, f, "KeyError", 0)
    ELSE LET df2 == DropCol(df, name)
         IN  Outcome(df2, save(df2), "ok", 0)

\* a column of dtype float64: numbers and NaN only (what read_csv makes of a
\* column of numbers or of a column that is empty in every row)
IsFloat64(vals) ==
    vals # <<>> /\ \A r \in DOMAIN vals : vals[r].t \in {"num", "nan"}

\* counts = pd.value_counts(col); mask = counts.lt(m);
\* np.where(col.isin(counts[mask].index), 'Other', col).
\* value_counts leaves missing values out, so they are never in the mask;
\* np.where of 'Other' and a float64 column gives an array of strings.
GroupValues(vals, m) ==
    LET count(x) == Cardinality({r \in DOMAIN vals : vals[r] = x})
        rare == {x \in Range(vals) : x.t # "nan" /\ count(x) < m}
    IN  [r \in DOMAIN vals |->
            IF vals[r] \in rare THEN Str("Other")
            ELSE IF ~IsFloat64(vals) THEN vals[r]
            ELSE IF vals[r].t = "nan" THEN Str("nan")
            ELSE Str(vals[r].v)]

GroupCol(scaffold) == <<"ScaffoldGroup">> \o scaffold

RECURSIVE createScaffoldGroupsFrom(_, _, _, _)
createScaffoldGroupsFrom(df, scaffolds, m, k) ==
    IF k > Len(scaffolds) THEN df
    ELSE createScaffoldGroupsFrom(
            SetCol(df, GroupCol(scaffolds[k]),
                   GroupValues(GetCol(df, scaffolds[k]), m)),
            scaffolds, m, k + 1)

\* the table after the loop over getScaffolds(includeMols=False).columns
Grouped(df, mols_per_group) ==
    createScaffoldGroupsFrom(df, Columns(getScaffolds(df, FALSE)),
                             mols_per_group, 1)

createScaffoldGroups(df, f, mols_per_group) ==
    Outcome(Grouped(df, mols_per_group), save(Grouped(df, mols_per_group)),
            "ok", 0)

-----------------------------------------------------------------------------
(* The calls a client makes, one action per call.  op records the last     *)
(* call: the method, how it ended, the position k of the function at which *)
(* it raised, its arguments (the list of functions, the column name, the   *)
(* group size) and whether the table had ScaffoldGroup_ columns before it. *)

\* the lists of at most len distinct elements of S
RECURSIVE Lists(_, _)
Lists(S, len) ==
    IF len = 0 THEN {<<>>}
    ELSE Lists(S, len - 1)
            \cup UNION {{Append(l, x) : x \in S \ Range(l)} :
                            l \in Lists(S, len - 1)}

\* the molecules of an initial file: at most MaxRows consecutive rows of
\* ExampleRows, or all of them
RowSeqs ==
    {SubSeq(ExampleRows, i, j) :
        i \in 1..Len(ExampleRows), j \in 0..Len(ExampleRows)}
      \cap UNION {[1..l -> Smiles] : l \in {Len(ExampleRows)} \cup 0..MaxRows}

\* the file the acquisition step leaves: one SMILES column
FileOf(rows) ==
    [exists |-> TRUE, n |-> Len(rows),
     cols |-> << [name |-> smilesCol,
                  vals |-> [r \in DOMAIN rows |-> <<rows[r], 0>>]] >>]

InitFiles == {NoFile} \cup {FileOf(rows) : rows \in RowSeqs}

AddDataNames == {<<"Label">>, DescriptorCol("Aromatic")}
RemoveDataNames == {<<"Label">>, <<"Missing">>}
DataArgs ==
    {[kind |-> "scalar", len |-> 0]}
        \cup {[kind |-> "list", len |-> l] : l \in 1..MaxData}

Mutators ==
    {"addDescriptors", "addScaffolds", "addData", "removeData",
     "createScaffoldGroups"}

Call(name, out, fns, col, m) ==
    /\ calls < MaxCalls
    /\ calls' = calls + 1
    /\ _data' = out.data
    /\ file' = out.file
    /\ op' = [name |-> name, result |-> out.result, k |-> out.k,
              fns |-> fns, col |-> col, m |-> m,
              had |-> hasScaffoldGroups(_data)]

Init ==
    /\ file \in InitFiles
    /\ _data = __init__(file).data
    /\ live = (__init__(file).result = "ok")
    /\ op = [name |-> "__init__", result |-> __init__(file).result, k |-> 0,
             fns |-> <<>>, col |-> <<>>, m |-> 0, had |-> FALSE]
    /\ calls = 0

\* a new DataSetTSV on the same path takes the place of the old one
Construct ==
    /\ live' = (__init__(file).result = "ok")
    /\ Call("__init__", __init__(file), <<>>, <<>>, 0)

AddDescriptors ==
    /\ live
    /\ \E ds \in Lists(DescriptorNames, MaxList) :
          Call("addDescriptors", addDescriptors(_data, file, ds), ds, <<>>, 0)
    /\ UNCHANGED live

AddScaffolds ==
    /\ live
    /\ \E ss \in Lists(ScaffoldFns, MaxList) :
          Call("addScaffolds", addScaffolds(_data, file, ss), ss, <<>>, 0)
    /\ UNCHANGED live

AddData ==
    /\ live
    /\ \E name \in AddDataNames, data \in DataArgs :
          Call("addData", addData(_data, file, name, data), <<>>, name, 0)
    /\ UNCHANGED live

RemoveData ==
    /\ live
    /\ \E name \in RemoveDataNames :
          Call("removeData", removeData(_data, file, name), <<>>, name, 0)
    /\ UNCHANGED live

CreateScaffoldGroups ==
    /\ live
    /\ \E m \in 1..MaxGroup :
          Call("createScaffoldGroups", createScaffoldGroups(_data, file, m),
               <<>>, <<>>, m)
    /\ UNCHANGED live

Save ==
    /\ live
    /\ Call("save", Outcome(_data, save(_data), "ok", 0), <<>>, <<>>, 0)
    /\ UNCHANGED live

Next ==
    \/ Construct
    \/ AddDescriptors
    \/ AddScaffolds
    \/ AddData
    \/ RemoveData
    \/ CreateScaffoldGroups
    \/ Save

Spec == Init /\ [][Next]_vars

\* the sessions that start from the file of the grouping example
InitExample == Init /\ file = FileOf(ExampleRows)

SpecExample == InitExample /\ [][Next]_vars

-----------------------------------------------------------------------------
(* Vocabulary of the properties.                                           *)

ListMethods == {"addDescriptors", "addScaffolds"}

\* method(fns) for one of the two methods that take a list of functions
ListCall(method, df, f, fns) ==
    IF method = "addDescriptors"
    THEN addDescriptors(df, f, fns)
    ELSE addScaffolds(df, f, fns)

\* the columns that belong to the function fn of a list method
ColumnsOf(method, fn) ==
    IF method = "addDescriptors"
    THEN {DescriptorCol(fn)}
    ELSE {ScaffoldCol(fn), ScaffoldMolCol(fn)}

HasFileCol(f, name) == \E i \in DOMAIN f.cols : f.cols[i].name = name

\* the scaffold structure-string columns, Scaffold_<name>
StringScaffoldCols(df) ==
    {c \in Range(Columns(df)) : \E s \in ScaffoldFns : c = ScaffoldCol(s)}

GroupCols(df) ==
    {c \in Range(Columns(df)) : startswith(c, "ScaffoldGroup")}

Occurrences(vals, x) == Cardinality({r \in DOMAIN vals : vals[r] = x})

\* equal tables: column names, column order, row order and values, two
\* molecule objects being equal when they are the same structure
CellEq(x, y) == x.t = y.t /\ x.v = y.v /\ (x.t = "mol" \/ x.a = y.a)

TableEq(d1, d2) ==
    /\ d1.none = d2.none
    /\ d1.n = d2.n
    /\ Columns(d1) = Columns(d2)
    /\ \A i \in DOMAIN d1.cols :
          /\ DOMAIN d1.cols[i].vals = DOMAIN d2.cols[i].vals
          /\ \A r \in DOMAIN d1.cols[i].vals :
                CellEq(d1.cols[i].vals[r], d2.cols[i].vals[r])

\* the last call was a mutating call that returned
Succeeded == live /\ op.name \in Mutators /\ op.result = "ok"

-----------------------------------------------------------------------------
(* C1: whenever a mutating call returns successfully, the file at          *)
(* self.path is the in-memory table as to_csv writes it: same column       *)
(* names, same column order, same row values.                              *)

\* C1 as stated: every successful addDescriptors, addScaffolds, addData,
\* removeData and createScaffoldGroups call leaves the file equal to the table.
C1_FileEqualsTable == Succeeded => file = to_csv(_data)

\* C1 amended: the same, for every successful call except addDescriptors and
\* addScaffolds with an empty list, which save nothing.
C1_FileEqualsTableAfterSave ==
    (Succeeded /\ ~(op.name \in ListMethods /\ op.fns = <<>>)) =>
        file = to_csv(_data)

C1_Witness ==
    /\ Succeeded
    /\ op.name = "addScaffolds" /\ op.fns = <<"Murcko">>
    /\ HasCol(_data, ScaffoldMolCol("Murcko"))
    /\ HasFileCol(file, ScaffoldMolCol("Murcko"))
    /\ file = to_csv(_data)

-----------------------------------------------------------------------------
(* C2: a mutating call is all-or-nothing with respect to the file.         *)

\* C2 as stated: after a call that fails the file is what it was before the
\* call, also when a later function of a list raises.
C2_AllOrNothing ==
    [][(op'.name \in Mutators /\ op'.result # "ok") => file' = file]_vars

\* C2 amended: a call that fails at the k-th function of its list leaves
\* the file that the successful call with the first k-1 functions leaves (the
\* file as it was when k = 1); a failed addData, removeData or
\* createScaffoldGroups leaves the file as it was.
C2_FailsAfterPrefix ==
    [][(op'.name \in Mutators /\ op'.result # "ok") =>
          IF op'.name \in ListMethods
          THEN LET prefix == ListCall(op'.name, _data, file,
                                      SubSeq(op'.fns, 1, op'.k - 1))
               IN  /\ op'.k \in 1..Len(op'.fns)
                   /\ prefix.result = "ok"
                   /\ file' = prefix.file
                   /\ (op'.k = 1 => file' = file)
          ELSE file' = file]_vars

C2_Witness ==
    /\ live
    /\ op.name = "addScaffolds" /\ op.result = "AnnotationFailure" /\ op.k = 2
    /\ HasFileCol(file, ScaffoldCol("Murcko"))
    /\ ~HasFileCol(file, ScaffoldCol("Ring"))

-----------------------------------------------------------------------------
(* C3: no call, successful or failed, changes the number of rows of the    *)
(* in-memory table or of the file.                                         *)

C3_RowCount ==
    [][op'.name \in Mutators => (_data'.n = _data.n /\ file'.n = file.n)]_vars

-----------------------------------------------------------------------------
(* C4: createScaffoldGroups(m) gives every row of ScaffoldGroup_<c> the    *)
(* row's value in the scaffold column c when that value occurs at least m  *)
(* times in c, and "Other" when it occurs fewer than m times.              *)

C4_GroupingThreshold ==
    (live /\ op.name = "createScaffoldGroups") =>
        \A c \in StringScaffoldCols(_data) :
            /\ HasCol(_data, GroupCol(c))
            /\ \A r \in 1.._data.n :
                  GetCol(_data, GroupCol(c))[r] =
                      IF Occurrences(GetCol(_data, c), GetCol(_data, c)[r]) >= op.m
                      THEN GetCol(_data, c)[r]
                      ELSE Str("Other")

-----------------------------------------------------------------------------
(* C5: removeData of a name that is not a column raises the missing-column *)
(* error and changes neither the table nor the file.                       *)

C5_RemoveMissingColumn ==
    [][(op'.name = "removeData" /\ ~HasCol(_data, op'.col)) =>
          (op'.result = "KeyError" /\ _data' = _data /\ file' = file)]_vars

C5_Witness ==
    /\ live
    /\ op.name = "removeData" /\ op.result = "KeyError"
    /\ op.col = <<"Label">>
    /\ ~HasCol(_data, <<"Label">>)
    /\ HasCol(_data, DescriptorCol("MW"))

-----------------------------------------------------------------------------
(* C6: constructing a DataSetTSV on a path where no file exists succeeds   *)
(* and yields a store without a table.                                     *)

C6_ConstructWithoutFile ==
    (op.name = "__init__" /\ ~file.exists) => (op.result = "ok" /\ live)

-----------------------------------------------------------------------------
(* C7: after a successful mutating call has saved the table, a new         *)
(* DataSetTSV on the same path holds a table equal to the in-memory one,   *)
(* molecule columns included.                                              *)

C7_RoundTrip ==
    (Succeeded /\ file = to_csv(_data)) =>
        /\ __init__(file).result = "ok"
        /\ TableEq(__init__(file).data, _data)

-----------------------------------------------------------------------------
(* C8: when the k-th function (k > 1) of a list raises, the columns of the *)
(* functions before it are in the table and in the file, and the table and *)
(* the file agree.                                                         *)

\* the call just made failed because the k-th function of its list raised
FailedAtLater ==
    op'.name \in ListMethods /\ op'.result = "AnnotationFailure" /\ op'.k > 1

\* the columns of the functions before the k-th are in the table and the file
EarlierColumnsKept ==
    /\ \A j \in 1..(op'.k - 1) : \A c \in ColumnsOf(op'.name, op'.fns[j]) :
          HasCol(_data', c) /\ HasFileCol(file', c)
    /\ file' = to_csv(_data')

\* C8 as stated: and no column belonging to the k-th function is in the table
\* or in the file.
C8_NoColumnOfFailed ==
    [][FailedAtLater =>
          /\ EarlierColumnsKept
          /\ \A c \in ColumnsOf(op'.name, op'.fns[op'.k]) :
                ~HasCol(_data', c) /\ ~HasFileCol(file', c)]_vars

\* C8 amended: and the call adds no column belonging to the k-th function
\* and changes none: such a column is in the table and the file after the
\* call only if it was in the table before the call, with the values it had.
C8_FailedAddsNoColumn ==
    [][FailedAtLater =>
          /\ EarlierColumnsKept
          /\ \A c \in ColumnsOf(op'.name, op'.fns[op'.k]) :
                /\ HasCol(_data', c) <=> HasCol(_data, c)
                /\ HasFileCol(file', c) <=> HasCol(_data, c)
                /\ HasCol(_data, c) => GetCol(_data', c) = GetCol(_data, c)]_vars

C8_Witness ==
    /\ live
    /\ op.name = "addDescriptors" /\ op.result = "AnnotationFailure" /\ op.k = 2
    /\ op.fns = <<"MW", "Aromatic">>
    /\ HasCol(_data, DescriptorCol("MW"))
    /\ HasFileCol(file, DescriptorCol("MW"))
    /\ ~HasCol(_data, DescriptorCol("Aromatic"))
    /\ ~HasFileCol(file, DescriptorCol("Aromatic"))

-----------------------------------------------------------------------------
(* C9: createScaffoldGroups makes one ScaffoldGroup_ column per scaffold   *)
(* structure-string column and none for the Scaffold_<name>_RDMol columns; *)
(* getScaffolds(includeMols=False) leaves the molecule columns out.        *)

C9_GroupsOfStringColumns ==
    (live /\ op.name = "createScaffoldGroups" /\ StringScaffoldCols(_data) # {}) =>
        /\ GroupCols(_data) = {GroupCol(c) : c \in StringScaffoldCols(_data)}
        /\ Range(Columns(getScaffolds(_data, FALSE))) = StringScaffoldCols(_data)
        /\ getScaffolds(_data, FALSE) # getScaffolds(_data, TRUE)

-----------------------------------------------------------------------------
(* C10: createScaffoldGroups(m1) followed by createScaffoldGroups(m2)      *)
(* leaves the table createScaffoldGroups(m2) alone leaves; the second call *)
(* adds no column and no ScaffoldGroup_ScaffoldGroup_ column exists.       *)
(* Grouped(df, m) is the table createScaffoldGroups(m) leaves (and saves). *)

C10_LastCallWins ==
    live =>
        \A m2 \in 1..MaxGroup :
            LET alone == Grouped(_data, m2)
            IN  \A m1 \in 1..MaxGroup :
                    LET first == Grouped(_data, m1)
                        second == Grouped(first, m2)
                    IN  /\ second = alone
                        /\ Len(second.cols) = Len(first.cols)
                        /\ \A c \in Range(Columns(second)) :
                              ~(startswith(c, "ScaffoldGroup")
                                  /\ c[2] = "ScaffoldGroup")

C10_Witness ==
    /\ live
    /\ op.name = "createScaffoldGroups" /\ op.result = "ok" /\ op.had
    /\ HasCol(_data, GroupCol(ScaffoldCol("Murcko")))
    /\ \E r \in 1.._data.n :
          GetCol(_data, GroupCol(ScaffoldCol("Murcko")))[r] = Str("Other")

====
